---------------------------- MODULE Spec2Model ----------------------------
(***************************************************************************)
(* QUIC packet protection (src/src/crypto.rs): the cipher-suite table, the *)
(* Open and Seal objects with their per-packet nonce construction, the     *)
(* header-protection keystream, and the Initial key schedule built on      *)
(* HKDF-Expand-Label.                                                      *)
(*                                                                         *)
(* Bytes.  A byte of key material or of a caller's buffer is a record      *)
(* [s, m]: m is a concrete value 0..255 and s a finite set of atoms, each  *)
(* atom standing for one output byte of a cryptographic primitive (HKDF,   *)
(* AEAD keystream, AEAD tag, header-protection keystream).  The byte is    *)
(* the XOR of m and of all atoms of s, so XOR is bitwise on m and the      *)
(* symmetric difference on s.  Program constants (labels, info strings,    *)
(* the counter encoding, associated data) are plain integers 0..255.       *)
(***************************************************************************)
EXTENDS Integers, Sequences, FiniteSets, TLC

VARIABLES bin, buf, open, seal, log, last

vars == <<bin, buf, open, seal, log, last>>

-----------------------------------------------------------------------------
(* Results: Ok(v), Err(CryptoFail), or a panic (unwind of the caller).     *)

Ok(v) == [tag |-> "Ok", val |-> v]

Err == [tag |-> "Err", val |-> 0]

Panic == [tag |-> "Panic", val |-> 0]

-----------------------------------------------------------------------------
(* Byte algebra.                                                           *)

RECURSIVE BitXor(_, _)
BitXor(a, b) ==
    IF a = 0 THEN b
    ELSE IF b = 0 THEN a
    ELSE (((a % 2) + (b % 2)) % 2) + 2 * BitXor(a \div 2, b \div 2)

B(n) == [s |-> {}, m |-> n]

Atom(a) == [s |-> {a}, m |-> 0]

Xor(x, y) == [s |-> (x.s \ y.s) \cup (y.s \ x.s), m |-> BitXor(x.m, y.m)]

Bytes(ints) == [i \in 1..Len(ints) |-> B(ints[i])]

Zeros(n) == [i \in 1..n |-> B(0)]

Take(s, n) == SubSeq(s, 1, n)

Drop(s, n) == SubSeq(s, n + 1, Len(s))

(* A canonical name for a byte string used as a key: the whole output of  *)
(* one HKDF expansion is named by that expansion, anything else by its    *)
(* bytes.                                                                 *)
IsOkm(bs) ==
    /\ Len(bs) > 0
    /\ bs[1].m = 0
    /\ Cardinality(bs[1].s) = 1
    /\ LET a == CHOOSE x \in bs[1].s : TRUE
       IN  /\ a[1] = "okm"
           /\ Len(a) = 4
           /\ \A i \in 1..Len(bs) : bs[i] = Atom(<<"okm", a[2], a[3], i>>)

Pack(bs) ==
    IF IsOkm(bs)
    THEN LET a == CHOOSE x \in bs[1].s : TRUE
         IN  <<"okm", <<a[2], a[3], Len(bs)>>>>
    ELSE <<"raw", bs>>

-----------------------------------------------------------------------------
(* Algorithm: the suite table.                                             *)

Suites == {"AES128_GCM", "AES256_GCM", "ChaCha20_Poly1305"}

Algorithms == Suites \cup {"Null"}

NoAead == [key_len |-> 0, tag_len |-> 0, nonce_len |-> 0]

(* get_ring_aead with Null falling through to a default suite.             *)
get_ring_aead_default(alg) ==
    CASE alg = "AES256_GCM" ->
            [res |-> Ok(0), a |-> [key_len |-> 32, tag_len |-> 16, nonce_len |-> 12]]
      [] alg = "ChaCha20_Poly1305" ->
            [res |-> Ok(0), a |-> [key_len |-> 32, tag_len |-> 16, nonce_len |-> 12]]
      [] OTHER ->
            [res |-> Ok(0), a |-> [key_len |-> 16, tag_len |-> 16, nonce_len |-> 12]]

get_ring_aead(alg) ==
    CASE alg = "AES128_GCM" ->
            [res |-> Ok(0), a |-> [key_len |-> 16, tag_len |-> 16, nonce_len |-> 12]]
      [] alg = "AES256_GCM" ->
            [res |-> Ok(0), a |-> [key_len |-> 32, tag_len |-> 16, nonce_len |-> 12]]
      [] alg = "ChaCha20_Poly1305" ->
            [res |-> Ok(0), a |-> [key_len |-> 32, tag_len |-> 16, nonce_len |-> 12]]
      [] OTHER -> [res |-> Panic, a |-> NoAead]

get_ring_stream(alg) ==
    CASE alg = "AES128_GCM" -> [res |-> Ok(0), name |-> "AES_128_CTR", key_len |-> 16]
      [] alg = "AES256_GCM" -> [res |-> Ok(0), name |-> "AES_256_CTR", key_len |-> 32]
      [] alg = "ChaCha20_Poly1305" -> [res |-> Ok(0), name |-> "CHACHA20", key_len |-> 32]
      [] OTHER -> [res |-> Panic, name |-> "", key_len |-> 0]

get_ring_digest(alg) ==
    CASE alg = "AES128_GCM" -> [res |-> Ok(0), name |-> "SHA256", output_len |-> 32]
      [] alg = "AES256_GCM" -> [res |-> Ok(0), name |-> "SHA384", output_len |-> 48]
      [] alg = "ChaCha20_Poly1305" -> [res |-> Ok(0), name |-> "SHA256", output_len |-> 32]
      [] OTHER -> [res |-> Panic, name |-> "", output_len |-> 0]

key_len(alg) ==
    LET r == get_ring_aead(alg)
    IN  IF r.res.tag = "Ok" THEN Ok(r.a.key_len) ELSE r.res

tag_len(alg) ==
    LET r == get_ring_aead(alg)
    IN  IF r.res.tag = "Ok" THEN Ok(r.a.tag_len) ELSE r.res

nonce_len(alg) ==
    LET r == get_ring_aead(alg)
    IN  IF r.res.tag = "Ok" THEN Ok(r.a.nonce_len) ELSE r.res

pn_nonce_len(alg) ==
    LET r == get_ring_aead(alg)
    IN  IF r.res.tag = "Ok" THEN Ok(r.a.nonce_len + 4) ELSE r.res

-----------------------------------------------------------------------------
(* octets::Bytes: a cursor over a fixed buffer of plain bytes; every put   *)
(* writes big-endian at the offset and fails, writing nothing, when the    *)
(* remaining capacity is too small.  A cursor that has failed stays        *)
(* failed: the callers stop at the first failing put.                      *)

octets_new(b) == [buf |-> b, off |-> 0, err |-> FALSE]

put_bytes(o, v) ==
    IF o.err \/ Len(o.buf) - o.off < Len(v)
    THEN [o EXCEPT !.err = TRUE]
    ELSE [buf |-> [i \in 1..Len(o.buf) |->
                      IF i > o.off /\ i <= o.off + Len(v) THEN v[i - o.off]
                      ELSE o.buf[i]],
          off |-> o.off + Len(v),
          err |-> FALSE]

put_u8(o, v) == put_bytes(o, <<v>>)

put_u16(o, v) == put_bytes(o, <<v \div 256, v % 256>>)

(* A 32-bit value is two 16-bit words <<hi, lo>>, a 64-bit value four,     *)
(* most significant first.                                                 *)
put_u32(o, w) ==
    put_bytes(o, <<w[1] \div 256, w[1] % 256, w[2] \div 256, w[2] % 256>>)

put_u64(o, w) ==
    put_bytes(o, <<w[1] \div 256, w[1] % 256, w[2] \div 256, w[2] % 256,
                   w[3] \div 256, w[3] % 256, w[4] \div 256, w[4] % 256>>)

-----------------------------------------------------------------------------
(* ring::aead.  A key is built only from key_len bytes.  Sealing XORs the  *)
(* plaintext with the keystream of (key, nonce) and appends the tag of     *)
(* (key, nonce, ad, ciphertext); opening recomputes the tag, and on a      *)
(* mismatch zeroes the ciphertext and fails.                               *)

NONCE_LEN == 12

TAG_LEN == 16

aead_key_new(alg, key) ==
    LET r == get_ring_aead(alg)
    IN  IF r.res.tag # "Ok" THEN r.res
        ELSE IF Len(key) # r.a.key_len THEN Err
        ELSE Ok(0)

aead_stream(alg, key, nonce, data) ==
    [i \in 1..Len(data) |-> Xor(data[i], Atom(<<"ks", alg, Pack(key), nonce, i>>))]

aead_tag(alg, key, nonce, ad, ct) ==
    [j \in 1..TAG_LEN |-> Atom(<<"tag", alg, Pack(key), nonce, ad, ct, j>>)]

seal_in_place(alg, key, nonce, ad, in_out, out_suffix_capacity) ==
    IF out_suffix_capacity < TAG_LEN THEN [res |-> Err, buf |-> in_out]
    ELSE IF Len(nonce) # NONCE_LEN THEN [res |-> Err, buf |-> in_out]
    ELSE IF Len(in_out) < out_suffix_capacity THEN [res |-> Err, buf |-> in_out]
    ELSE LET n  == Len(in_out) - out_suffix_capacity
             ct == aead_stream(alg, key, nonce, Take(in_out, n))
         IN  IF Len(in_out) - n # TAG_LEN THEN [res |-> Err, buf |-> in_out]
             ELSE [res |-> Ok(n + TAG_LEN),
                   buf |-> ct \o aead_tag(alg, key, nonce, ad, ct)]

open_in_place(alg, key, nonce, ad, in_prefix_len, in_out) ==
    IF Len(nonce) # NONCE_LEN THEN [res |-> Err, buf |-> in_out]
    ELSE IF Len(in_out) < in_prefix_len THEN [res |-> Err, buf |-> in_out]
    ELSE IF Len(in_out) - in_prefix_len < TAG_LEN THEN [res |-> Err, buf |-> in_out]
    ELSE LET n  == Len(in_out) - in_prefix_len - TAG_LEN
             ct == SubSeq(in_out, in_prefix_len + 1, in_prefix_len + n)
             tg == SubSeq(in_out, in_prefix_len + n + 1, Len(in_out))
         IN  IF tg # aead_tag(alg, key, nonce, ad, ct)
             THEN [res |-> Err, buf |-> Zeros(n) \o Drop(in_out, n)]
             ELSE [res |-> Ok(n),
                   buf |-> aead_stream(alg, key, nonce, ct) \o Drop(in_out, n)]

(* ring::unauthenticated_stream: AES-CTR or ChaCha20 keyed by the header-  *)
(* protection key, with a nonce of nonce_len + 4 bytes; encryption and     *)
(* decryption both XOR the buffer with the keystream of (key, nonce).      *)

stream_key_new(alg, key) ==
    LET r == get_ring_stream(alg)
    IN  IF r.res.tag # "Ok" THEN r.res
        ELSE IF Len(key) # r.key_len THEN Err
        ELSE Ok(0)

stream_xor(alg, key, nonce, in_out) ==
    IF Len(nonce) # NONCE_LEN + 4 THEN [res |-> Err, buf |-> in_out]
    ELSE [res |-> Ok(Len(in_out)),
          buf |-> [i \in 1..Len(in_out) |->
                     Xor(in_out[i], Atom(<<"ctr", alg, Pack(key), nonce, i>>))]]

encrypt_in_place(alg, key, nonce, in_out) == stream_xor(alg, key, nonce, in_out)

decrypt_in_place(alg, key, nonce, in_out) == stream_xor(alg, key, nonce, in_out)

-----------------------------------------------------------------------------
(* Open and Seal: the suite, the header-protection key, the AEAD key and   *)
(* the base IV.  NoObj stands for "no object".                             *)

NoObj == [alg |-> "None", pn_key |-> <<>>, key |-> <<>>, nonce |-> <<>>]

NoCall == [made |-> FALSE, nonce |-> <<>>, ad |-> <<>>, buf |-> <<>>]

(* The fields are evaluated in the order written: pn_key (its unwrap), key *)
(* (its unwrap), nonce, alg.                                               *)
Open_new(alg, key, iv, pn_key) ==
    IF stream_key_new(alg, pn_key).tag # "Ok" THEN [res |-> Panic, obj |-> NoObj]
    ELSE IF aead_key_new(alg, key).tag # "Ok" THEN [res |-> Panic, obj |-> NoObj]
    ELSE [res |-> Ok(0),
          obj |-> [alg |-> alg, pn_key |-> pn_key, key |-> key, nonce |-> iv]]

Seal_new(alg, key, iv, pn_key) ==
    IF stream_key_new(alg, pn_key).tag # "Ok" THEN [res |-> Panic, obj |-> NoObj]
    ELSE IF aead_key_new(alg, key).tag # "Ok" THEN [res |-> Panic, obj |-> NoObj]
    ELSE [res |-> Ok(0),
          obj |-> [alg |-> alg, pn_key |-> pn_key, key |-> key, nonce |-> iv]]

(* Open::open returning the length of the whole buffer, tag included.      *)
Open_open_whole(self, nonce, ad, b) ==
    LET r == open_in_place(self.alg, self.key, nonce, ad, 0, b)
    IN  IF r.res.tag # "Ok" THEN [res |-> Err, buf |-> r.buf]
        ELSE [res |-> Ok(Len(r.buf)), buf |-> r.buf]

Open_open(self, nonce, ad, b) ==
    LET r == open_in_place(self.alg, self.key, nonce, ad, 0, b)
    IN  IF r.res.tag # "Ok" THEN [res |-> Err, buf |-> r.buf]
        ELSE [res |-> Ok(r.res.val), buf |-> r.buf]

Seal_seal(self, nonce, ad, b) ==
    LET t == tag_len(self.alg)
    IN  IF t.tag # "Ok" THEN [res |-> Panic, buf |-> b]
        ELSE LET r == seal_in_place(self.alg, self.key, nonce, ad, b, t.val)
             IN  IF r.res.tag # "Ok" THEN [res |-> Err, buf |-> r.buf]
                 ELSE [res |-> Ok(r.res.val), buf |-> r.buf]

(* counter_nonce with the counter cut to its low 32 bits.                  *)
counter_nonce_u32(counter) ==
    put_u64(put_u32(octets_new([i \in 1..12 |-> 186]), <<0, 0>>),
            <<0, 0, counter[3], counter[4]>>).buf

(* counter_nonce: [0xba; 12], then put_u32(0) and put_u64(counter).        *)
counter_nonce(counter) ==
    put_u64(put_u32(octets_new([i \in 1..12 |-> 186]), <<0, 0>>), counter).buf

(* The XOR loop stopping one byte early.                                   *)
xor_nonce_short(nonce, cn) ==
    IF Len(nonce) > Len(cn) THEN [res |-> Panic, nonce |-> nonce]
    ELSE [res |-> Ok(0),
          nonce |-> [i \in 1..Len(nonce) |->
                       IF i < Len(nonce) THEN Xor(nonce[i], B(cn[i])) ELSE nonce[i]]]

(* nonce[i] ^= counter_nonce[i] for i in 0 .. nonce.len(): an index past   *)
(* the 12 bytes of counter_nonce panics.                                   *)
xor_nonce(nonce, cn) ==
    IF Len(nonce) > Len(cn) THEN [res |-> Panic, nonce |-> nonce]
    ELSE [res |-> Ok(0), nonce |-> [i \in 1..Len(nonce) |-> Xor(nonce[i], B(cn[i]))]]

Open_open_with_u64_counter(self, counter, ad, b) ==
    LET x == xor_nonce(self.nonce, counter_nonce(counter))
    IN  IF x.res.tag # "Ok" THEN [res |-> Panic, buf |-> b, call |-> NoCall]
        ELSE LET r == Open_open(self, x.nonce, ad, b)
             IN  [res |-> r.res, buf |-> r.buf,
                  call |-> [made |-> TRUE, nonce |-> x.nonce, ad |-> ad, buf |-> b]]

Seal_seal_with_u64_counter(self, counter, ad, b) ==
    LET x == xor_nonce(self.nonce, counter_nonce(counter))
    IN  IF x.res.tag # "Ok" THEN [res |-> Panic, buf |-> b, call |-> NoCall]
        ELSE LET r == Seal_seal(self, x.nonce, ad, b)
             IN  [res |-> r.res, buf |-> r.buf,
                  call |-> [made |-> TRUE, nonce |-> x.nonce, ad |-> ad, buf |-> b]]

Open_xor_keystream(self, nonce, b) ==
    LET r == decrypt_in_place(self.alg, self.pn_key, nonce, b)
    IN  IF r.res.tag # "Ok" THEN [res |-> Err, buf |-> r.buf]
        ELSE [res |-> Ok(Len(r.buf)), buf |-> r.buf]

(* Seal::xor_keystream keyed by the packet key instead of pn_key.          *)
Seal_xor_keystream_pkt_key(self, nonce, b) ==
    LET r == encrypt_in_place(self.alg, self.key, nonce, b)
    IN  IF r.res.tag # "Ok" THEN [res |-> Err, buf |-> r.buf]
        ELSE [res |-> Ok(r.res.val), buf |-> r.buf]

Seal_xor_keystream(self, nonce, b) ==
    LET r == encrypt_in_place(self.alg, self.pn_key, nonce, b)
    IN  IF r.res.tag # "Ok" THEN [res |-> Err, buf |-> r.buf]
        ELSE [res |-> Ok(r.res.val), buf |-> r.buf]

Open_alg(self) == self.alg

Seal_alg(self) == self.alg

-----------------------------------------------------------------------------
(* ring::hmac and ring::hkdf.  A signing key is a digest and either the    *)
(* key bytes it was built from or the extraction HMAC(salt, ikm).  Byte i  *)
(* of HKDF-Expand(prk, info) is the atom <<"okm", prk, info, i>>; expand   *)
(* panics when asked for more than 255 digest outputs.                     *)

hmac_SigningKey_new(digest, key) == [digest |-> digest, k |-> <<"key", Pack(key)>>]

hkdf_extract(salt, secret) == [digest |-> salt.digest, k |-> <<"extract", salt.k, secret>>]

hkdf_expand(prk, info, out) ==
    IF Len(out) > 255 * prk.digest.output_len
    THEN [res |-> Panic, out |-> out]
    ELSE [res |-> Ok(0), out |-> [i \in 1..Len(out) |-> Atom(<<"okm", prk, info, i>>)]]

SHA256 == get_ring_digest("AES128_GCM")

-----------------------------------------------------------------------------
(* Key derivation.  g is the content of uninitialized memory.              *)

INITIAL_SALT ==
    <<239, 79, 176, 171, 180, 116, 112, 196, 27, 239,
      207, 128, 49, 51, 79, 174, 72, 94, 9, 160>>

LABEL_PREFIX == <<116, 108, 115, 49, 51, 32>>

LABEL_client_in == <<99, 108, 105, 101, 110, 116, 32, 105, 110>>

LABEL_server_in == <<115, 101, 114, 118, 101, 114, 32, 105, 110>>

LABEL_quic_hp == <<113, 117, 105, 99, 32, 104, 112>>

LABEL_quic_key == <<113, 117, 105, 99, 32, 107, 101, 121>>

LABEL_quic_iv == <<113, 117, 105, 99, 32, 105, 118>>

hkdf_expand_label(prk, label, out, g) ==
    LET b == put_u8(
               put_bytes(
                 put_bytes(
                   put_u8(
                     put_u16(octets_new([i \in 1..256 |-> g]), Len(out) % 65536),
                     (Len(LABEL_PREFIX) + Len(label)) % 256),
                   LABEL_PREFIX),
                 label),
               0)
    IN  IF b.err
        THEN [res |-> Err, out |-> out, info |-> <<>>, expanded |-> FALSE]
        ELSE LET info == Take(b.buf, b.off)
                 e    == hkdf_expand(prk, info, out)
             IN  [res |-> e.res, out |-> e.out, info |-> info, expanded |-> TRUE]

derive_initial_secret(secret) ==
    hkdf_extract(hmac_SigningKey_new(SHA256, Bytes(INITIAL_SALT)), secret)

derive_client_initial_secret(prk, out, g) ==
    hkdf_expand_label(prk, LABEL_client_in, out, g)

derive_server_initial_secret(prk, out, g) ==
    hkdf_expand_label(prk, LABEL_server_in, out, g)

(* The fixed derivations refusing every buffer that is not exactly n long. *)
derive_into_exact(aead, n, label, secret, out, g) ==
    IF n.tag # "Ok" THEN [res |-> Panic, out |-> out]
    ELSE IF n.val # Len(out) THEN [res |-> Err, out |-> out]
    ELSE LET r == hkdf_expand_label(
                     hmac_SigningKey_new(get_ring_digest(aead), secret),
                     label, Take(out, n.val), g)
         IN  [res |-> r.res, out |-> r.out \o Drop(out, n.val)]

(* The three fixed derivations: the suite's length n against out.len(),    *)
(* then the expansion into out[..n], which leaves out[n..] alone.          *)
derive_into(aead, n, label, secret, out, g) ==
    IF n.tag # "Ok" THEN [res |-> Panic, out |-> out]
    ELSE IF n.val > Len(out) THEN [res |-> Err, out |-> out]
    ELSE LET r == hkdf_expand_label(
                     hmac_SigningKey_new(get_ring_digest(aead), secret),
                     label, Take(out, n.val), g)
         IN  [res |-> r.res, out |-> r.out \o Drop(out, n.val)]

derive_hdr_key(aead, secret, out, g) ==
    derive_into(aead, key_len(aead), LABEL_quic_hp, secret, out, g)

derive_pkt_key(aead, secret, out, g) ==
    derive_into(aead, key_len(aead), LABEL_quic_key, secret, out, g)

derive_pkt_iv(aead, secret, out, g) ==
    derive_into(aead, nonce_len(aead), LABEL_quic_iv, secret, out, g)

FirstFailure(results) ==
    IF \A i \in 1..Len(results) : results[i].tag = "Ok" THEN Ok(0)
    ELSE results[CHOOSE i \in 1..Len(results) :
                   /\ results[i].tag # "Ok"
                   /\ \A j \in 1..(i - 1) : results[j].tag = "Ok"]

(* Strict(v, F): F applied to the value of v, computed once.               *)
Strict(v, F(_)) == CHOOSE r \in { F(x) : x \in {v} } : TRUE

(* The endpoint roles exchanged: a server opening with server material.    *)
initial_objects_swapped(aead, is_server, client, server, res) ==
    LET o == IF is_server
             THEN Open_new(aead, server[1].out, server[2].out, server[3].out)
             ELSE Open_new(aead, client[1].out, client[2].out, client[3].out)
        l == IF is_server
             THEN Seal_new(aead, client[1].out, client[2].out, client[3].out)
             ELSE Seal_new(aead, server[1].out, server[2].out, server[3].out)
        all == FirstFailure(res \o <<o.res, l.res>>)
    IN  IF all.tag = "Ok"
        THEN [res |-> all, open |-> o.obj, seal |-> l.obj]
        ELSE [res |-> all, open |-> NoObj, seal |-> NoObj]

(* The Open and Seal of one endpoint from the two directions' material     *)
(* (each <<key, iv, pn_key>> as derive results).                           *)
initial_objects(aead, is_server, client, server, res) ==
    LET o == IF is_server
             THEN Open_new(aead, client[1].out, client[2].out, client[3].out)
             ELSE Open_new(aead, server[1].out, server[2].out, server[3].out)
        l == IF is_server
             THEN Seal_new(aead, server[1].out, server[2].out, server[3].out)
             ELSE Seal_new(aead, client[1].out, client[2].out, client[3].out)
        all == FirstFailure(res \o <<o.res, l.res>>)
    IN  IF all.tag = "Ok"
        THEN [res |-> all, open |-> o.obj, seal |-> l.obj]
        ELSE [res |-> all, open |-> NoObj, seal |-> NoObj]

derive_material(aead, secret, g) ==
    LET kl == key_len(aead).val
        nl == nonce_len(aead).val
    IN  << derive_pkt_key(aead, secret, Zeros(kl), g),
           derive_pkt_iv(aead, secret, Zeros(nl), g),
           derive_hdr_key(aead, secret, Zeros(kl), g) >>

(* The server secret written into the shared buffer before the client's    *)
(* header-protection key is derived from it.                               *)
derive_initial_key_material_early(cid, is_server, g) ==
    LET aead == "AES128_GCM"
    IN  Strict(derive_initial_secret(cid), LAMBDA initial_secret :
        Strict(derive_client_initial_secret(initial_secret, Bytes([i \in 1..32 |-> g]), g),
               LAMBDA s1 :
        Strict(derive_server_initial_secret(initial_secret, s1.out, g), LAMBDA s2 :
        Strict(<<derive_pkt_key(aead, s1.out, Zeros(16), g),
                 derive_pkt_iv(aead, s1.out, Zeros(12), g),
                 derive_hdr_key(aead, s2.out, Zeros(16), g)>>, LAMBDA client :
        Strict(derive_material(aead, s2.out, g), LAMBDA server :
            initial_objects(aead, is_server, client, server,
                            <<s1.res, client[1].res, client[2].res, client[3].res,
                              s2.res, server[1].res, server[2].res, server[3].res>>))))))

(* One secret buffer serves both directions: the client's key, IV and      *)
(* header key are derived from it before the server secret overwrites it;  *)
(* a failing step returns at once (the ? operator).                        *)
derive_initial_key_material(cid, is_server, g) ==
    LET aead == "AES128_GCM"
    IN  Strict(derive_initial_secret(cid), LAMBDA initial_secret :
        Strict(derive_client_initial_secret(initial_secret, Bytes([i \in 1..32 |-> g]), g),
               LAMBDA s1 :
        Strict(derive_material(aead, s1.out, g), LAMBDA client :
        Strict(derive_server_initial_secret(initial_secret, s1.out, g), LAMBDA s2 :
        Strict(derive_material(aead, s2.out, g), LAMBDA server :
            initial_objects(aead, is_server, client, server,
                            <<s1.res, client[1].res, client[2].res, client[3].res,
                              s2.res, server[1].res, server[2].res, server[3].res>>))))))

-----------------------------------------------------------------------------
(* Inputs.                                                                 *)

KeyOf(n, seed) == Bytes([i \in 1..n |-> (seed + 7 * i) % 256])

IVa == Bytes(<<18, 243, 147, 138, 202, 52, 170, 2, 84, 49, 99, 212>>)

IVb == Bytes(<<123, 80, 191, 54, 152, 160, 109, 250, 191, 117, 242, 135>>)

IVshort == Take(IVa, 8)

IVlong == IVa \o <<B(1)>>

(* 64-bit counters as four 16-bit words: 0, 1, 2^8, 2^16, 2^32, 2^63 and  *)
(* 2^64 - 1.                                                               *)
Counters ==
    { <<0, 0, 0, 0>>, <<0, 0, 0, 1>>, <<0, 0, 0, 256>>, <<0, 0, 1, 0>>,
      <<0, 1, 0, 0>>, <<32768, 0, 0, 0>>, <<65535, 65535, 65535, 65535>> }

Ads == { <<>>, <<195, 255, 0, 0, 18>> }

Plain == Bytes(<<6, 0, 64>>)

BufInputs == { Zeros(TAG_LEN), Plain \o Zeros(TAG_LEN), Plain }

NoLast ==
    [op |-> "none", res |-> Ok(0), alg |-> "None", counter |-> <<>>, nonce |-> <<>>,
     ad |-> <<>>, call |-> NoCall, lens |-> <<>>,
     secret |-> <<>>, label |-> <<>>, info |-> <<>>,
     expanded |-> FALSE, cid |-> <<>>, is_server |-> FALSE, g |-> 0]

Running == last.res.tag # "Panic"

-----------------------------------------------------------------------------
(* Construction and the suite's accessors.                                 *)

NewKeys == { KeyOf(16, 1), KeyOf(32, 1), KeyOf(5, 1) }

NewIVs == { IVa, IVshort, IVlong }

OpenNew(alg, key, iv, pn_key) ==
    /\ Running
    /\ LET r == Open_new(alg, key, iv, pn_key)
       IN  /\ open' = IF r.res.tag = "Ok" THEN r.obj ELSE open
           /\ last' = [NoLast EXCEPT !.op = "Open::new", !.res = r.res, !.alg = alg,
                                     !.lens = <<Len(key), Len(iv), Len(pn_key)>>]
    /\ UNCHANGED <<bin, buf, seal, log>>

SealNew(alg, key, iv, pn_key) ==
    /\ Running
    /\ LET r == Seal_new(alg, key, iv, pn_key)
       IN  /\ seal' = IF r.res.tag = "Ok" THEN r.obj ELSE seal
           /\ last' = [NoLast EXCEPT !.op = "Seal::new", !.res = r.res, !.alg = alg,
                                     !.lens = <<Len(key), Len(iv), Len(pn_key)>>]
    /\ UNCHANGED <<bin, buf, open, log>>

KeyLen(alg) ==
    /\ Running
    /\ last' = [NoLast EXCEPT !.op = "key_len", !.res = key_len(alg), !.alg = alg]
    /\ UNCHANGED <<bin, buf, open, seal, log>>

TagLen(alg) ==
    /\ Running
    /\ last' = [NoLast EXCEPT !.op = "tag_len", !.res = tag_len(alg), !.alg = alg]
    /\ UNCHANGED <<bin, buf, open, seal, log>>

NonceLen(alg) ==
    /\ Running
    /\ last' = [NoLast EXCEPT !.op = "nonce_len", !.res = nonce_len(alg), !.alg = alg]
    /\ UNCHANGED <<bin, buf, open, seal, log>>

PnNonceLen(alg) ==
    /\ Running
    /\ last' = [NoLast EXCEPT !.op = "pn_nonce_len", !.res = pn_nonce_len(alg),
                              !.alg = alg]
    /\ UNCHANGED <<bin, buf, open, seal, log>>

OpenAlg ==
    /\ Running
    /\ open # NoObj
    /\ last' = [NoLast EXCEPT !.op = "Open::alg", !.alg = Open_alg(open)]
    /\ UNCHANGED <<bin, buf, open, seal, log>>

SealAlg ==
    /\ Running
    /\ seal # NoObj
    /\ last' = [NoLast EXCEPT !.op = "Seal::alg", !.alg = Seal_alg(seal)]
    /\ UNCHANGED <<bin, buf, open, seal, log>>

InitNew ==
    /\ open = NoObj
    /\ seal = NoObj
    /\ bin = <<>>
    /\ buf = <<>>
    /\ last = NoLast
    /\ log = {}

NextNew ==
    \/ \E alg \in Algorithms, key \in NewKeys, iv \in NewIVs, pn_key \in NewKeys :
          OpenNew(alg, key, iv, pn_key)
    \/ \E alg \in Algorithms, key \in NewKeys, iv \in NewIVs, pn_key \in NewKeys :
          SealNew(alg, key, iv, pn_key)
    \/ \E alg \in Algorithms : KeyLen(alg)
    \/ \E alg \in Algorithms : TagLen(alg)
    \/ \E alg \in Algorithms : NonceLen(alg)
    \/ \E alg \in Algorithms : PnNonceLen(alg)
    \/ OpenAlg
    \/ SealAlg

SpecNew == InitNew /\ [][NextNew]_vars

-----------------------------------------------------------------------------
(* Packet protection on a caller-owned buffer.                             *)

Nonces == { IVa, IVb, IVshort }

PnNonces == { IVa \o Bytes(<<0, 0, 0, 1>>), IVb \o Bytes(<<9, 9, 9, 9>>), IVa }

SealSeal(nonce, ad, b) ==
    /\ Running
    /\ LET r == Seal_seal(seal, nonce, ad, b)
       IN  /\ buf' = r.buf
           /\ last' = [NoLast EXCEPT !.op = "Seal::seal", !.res = r.res,
                                     !.alg = seal.alg, !.nonce = nonce, !.ad = ad]
           /\ bin' = b
    /\ UNCHANGED <<open, seal, log>>

OpenOpen(nonce, ad, b) ==
    /\ Running
    /\ LET r == Open_open(open, nonce, ad, b)
       IN  /\ buf' = r.buf
           /\ last' = [NoLast EXCEPT !.op = "Open::open", !.res = r.res,
                                     !.alg = open.alg, !.nonce = nonce, !.ad = ad]
           /\ bin' = b
    /\ UNCHANGED <<open, seal, log>>

SealWithCounter(counter, ad, b) ==
    /\ Running
    /\ LET r == Seal_seal_with_u64_counter(seal, counter, ad, b)
       IN  /\ buf' = r.buf
           /\ last' = [NoLast EXCEPT !.op = "Seal::seal_with_u64_counter",
                                     !.res = r.res, !.alg = seal.alg,
                                     !.counter = counter, !.ad = ad, !.call = r.call]
           /\ bin' = b
    /\ UNCHANGED <<open, seal>>

OpenWithCounter(counter, ad, b) ==
    /\ Running
    /\ LET r == Open_open_with_u64_counter(open, counter, ad, b)
       IN  /\ buf' = r.buf
           /\ last' = [NoLast EXCEPT !.op = "Open::open_with_u64_counter",
                                     !.res = r.res, !.alg = open.alg,
                                     !.counter = counter, !.ad = ad, !.call = r.call]
           /\ bin' = b
    /\ UNCHANGED <<open, seal>>

SealXorKeystream(nonce, b) ==
    /\ Running
    /\ LET r == Seal_xor_keystream(seal, nonce, b)
       IN  /\ buf' = r.buf
           /\ last' = [NoLast EXCEPT !.op = "Seal::xor_keystream", !.res = r.res,
                                     !.alg = seal.alg, !.nonce = nonce]
           /\ bin' = b
    /\ UNCHANGED <<open, seal, log>>

OpenXorKeystream(nonce, b) ==
    /\ Running
    /\ LET r == Open_xor_keystream(open, nonce, b)
       IN  /\ buf' = r.buf
           /\ last' = [NoLast EXCEPT !.op = "Open::xor_keystream", !.res = r.res,
                                     !.alg = open.alg, !.nonce = nonce]
           /\ bin' = b
    /\ UNCHANGED <<open, seal, log>>

(* The state after construction: a Seal and an Open of one suite; the Open *)
(* shares the Seal's key, IV and header-protection key, or differs in one. *)
Built(ivs, sames) ==
    \E alg \in Suites, iv \in ivs, same \in sames :
       LET n == key_len(alg).val
       IN  /\ seal = Seal_new(alg, KeyOf(n, 1), iv, KeyOf(n, 3)).obj
           /\ open = Open_new(alg,
                               IF same = "key" THEN KeyOf(n, 2) ELSE KeyOf(n, 1),
                               IF same = "iv" THEN IVb ELSE iv,
                               IF same = "pn_key" THEN KeyOf(n, 4) ELSE KeyOf(n, 3)).obj
           /\ bin = <<>>
           /\ buf = <<>>
           /\ last = NoLast
           /\ log = {}

(* Counter-based calls, with the history of the nonces they handed on:     *)
(* log holds, for each call made on the current objects, the side, the     *)
(* counter and the nonce passed to seal or open.                           *)

MaxLog == 2

Logged(side) ==
    IF last'.call.made
    THEN log \cup {[side |-> side, counter |-> last'.counter, nonce |-> last'.call.nonce]}
    ELSE log

InitNonce == Built({IVa, IVshort, IVlong}, {"all", "iv"})

NonceBufs == { Plain \o Zeros(TAG_LEN), Plain }

NextNonce ==
    \/ \E counter \in Counters, b \in NonceBufs :
          /\ Cardinality(log) < MaxLog
          /\ SealWithCounter(counter, <<>>, b)
          /\ log' = Logged("seal")
    \/ \E counter \in Counters, b \in NonceBufs :
          /\ Cardinality(log) < MaxLog
          /\ OpenWithCounter(counter, <<>>, b)
          /\ log' = Logged("open")

SpecNonce == InitNonce /\ [][NextNonce]_vars

(* Sealing and opening.                                                    *)

AeadCounters == { <<0, 0, 0, 1>>, <<65535, 65535, 65535, 65535>> }

InitAead == Built({IVa, IVshort}, {"all", "key", "iv"})

NextAead ==
    \/ \E nonce \in Nonces, ad \in Ads, b \in BufInputs : SealSeal(nonce, ad, b)
    \/ \E nonce \in Nonces, ad \in Ads, b \in BufInputs \cup {buf} : OpenOpen(nonce, ad, b)
    \/ \E counter \in AeadCounters, ad \in Ads, b \in BufInputs :
          SealWithCounter(counter, ad, b) /\ UNCHANGED log
    \/ \E counter \in AeadCounters, ad \in Ads, b \in BufInputs \cup {buf} :
          OpenWithCounter(counter, ad, b) /\ UNCHANGED log

SpecAead == InitAead /\ [][NextAead]_vars

(* Header protection.                                                      *)

InitXor == Built({IVa}, {"all", "pn_key"})

NextXor ==
    \/ \E nonce \in PnNonces, b \in BufInputs \cup {buf} : SealXorKeystream(nonce, b)
    \/ \E nonce \in PnNonces, b \in BufInputs \cup {buf} : OpenXorKeystream(nonce, b)

SpecXor == InitXor /\ [][NextXor]_vars

-----------------------------------------------------------------------------
(* Key derivation on caller-owned buffers.  The functions keep no state:   *)
(* each behaviour is one call on fresh inputs.                             *)

Fresh == last.op = "none"

Garbage == {0, 186}

Cids ==
    { <<198, 84, 239, 216, 163, 27, 71, 146>>, <<131, 148, 200, 240, 62, 81, 87, 8>>,
      <<>> }

Fill(n) == [i \in 1..n |-> B(170)]

ClientSecret ==
    derive_client_initial_secret(
        derive_initial_secret(<<198, 84, 239, 216, 163, 27, 71, 146>>), Zeros(32), 0).out

Secrets == { ClientSecret, KeyOf(32, 5), KeyOf(48, 5), <<>> }

OutLens == {0, 11, 12, 13, 15, 16, 17, 31, 32, 33}

LongLabel(n) == [i \in 1..n |-> 97]

Labels ==
    { LABEL_client_in, LABEL_quic_key, <<>>, LongLabel(245), LongLabel(246),
      LongLabel(247), LongLabel(250), LongLabel(255) }

Prks == { derive_initial_secret(<<>>), hmac_SigningKey_new(SHA256, ClientSecret) }

ExpandLens == {255, 256, 8161}

WrapLens == {65536, 65552}

DeriveInitialKeyMaterial(cid, is_server, g) ==
    /\ Fresh
    /\ LET r == derive_initial_key_material(cid, is_server, g)
       IN  /\ last' = [NoLast EXCEPT !.op = "derive_initial_key_material",
                                     !.res = r.res, !.alg = "AES128_GCM", !.cid = cid,
                                     !.is_server = is_server, !.g = g]
           /\ open' = IF r.res.tag = "Ok" THEN r.open ELSE open
           /\ seal' = IF r.res.tag = "Ok" THEN r.seal ELSE seal
    /\ UNCHANGED <<bin, buf, log>>

Derived(op, aead, secret, out, g, r) ==
    /\ Fresh
    /\ last' = [NoLast EXCEPT !.op = op, !.res = r.res, !.alg = aead,
                              !.secret = secret, !.g = g]
    /\ bin' = out
    /\ buf' = r.out
    /\ UNCHANGED <<open, seal, log>>

DerivePktKey(aead, secret, out, g) ==
    Derived("derive_pkt_key", aead, secret, out, g, derive_pkt_key(aead, secret, out, g))

DerivePktIv(aead, secret, out, g) ==
    Derived("derive_pkt_iv", aead, secret, out, g, derive_pkt_iv(aead, secret, out, g))

DeriveHdrKey(aead, secret, out, g) ==
    Derived("derive_hdr_key", aead, secret, out, g, derive_hdr_key(aead, secret, out, g))

(* A panic unwinds the caller: its buffers are gone with it; lens keeps    *)
(* out.len().                                                              *)
HkdfExpandLabel(prk, label, out, g) ==
    /\ Fresh
    /\ LET r == hkdf_expand_label(prk, label, out, g)
       IN  /\ last' = [NoLast EXCEPT !.op = "hkdf_expand_label", !.res = r.res,
                                     !.label = label, !.info = r.info,
                                     !.expanded = r.expanded, !.g = g,
                                     !.lens = <<Len(out)>>]
           /\ bin' = IF r.res.tag = "Panic" THEN <<>> ELSE out
           /\ buf' = IF r.res.tag = "Panic" THEN <<>> ELSE r.out
    /\ UNCHANGED <<open, seal, log>>

NextDerive ==
    \/ \E cid \in Cids, is_server \in BOOLEAN, g \in Garbage :
          DeriveInitialKeyMaterial(cid, is_server, g)
    \/ \E aead \in Algorithms, secret \in Secrets, n \in OutLens, g \in Garbage :
          DerivePktKey(aead, secret, Fill(n), g)
    \/ \E aead \in Algorithms, secret \in Secrets, n \in OutLens, g \in Garbage :
          DerivePktIv(aead, secret, Fill(n), g)
    \/ \E aead \in Algorithms, secret \in Secrets, n \in OutLens, g \in Garbage :
          DeriveHdrKey(aead, secret, Fill(n), g)
    \/ \E prk \in Prks, label \in Labels, n \in OutLens, g \in Garbage :
          HkdfExpandLabel(prk, label, Fill(n), g)
    \/ \E n \in ExpandLens, g \in Garbage :
          HkdfExpandLabel(derive_initial_secret(<<>>), LABEL_quic_key, Fill(n), g)
    \/ \E n \in WrapLens, g \in Garbage :
          HkdfExpandLabel(derive_initial_secret(<<>>), LABEL_quic_key, Fill(n), g)

SpecDerive == InitNew /\ [][NextDerive]_vars

-----------------------------------------------------------------------------
(* Claims on construction and the suite table (SpecNew).                   *)

Accessors == {"key_len", "tag_len", "nonce_len", "pn_nonce_len"}

Constructors == {"Open::new", "Seal::new"}

(* C9: the accessors called on Null panic and return nothing; Open::new    *)
(* and Seal::new with Null panic and build no object, so no Open or Seal   *)
(* with alg() = Null ever exists; for the three suites nonce_len is 12 and *)
(* pn_nonce_len is nonce_len + 4.                                          *)
C9_NullIsAFault ==
    /\ open.alg # "Null"
    /\ seal.alg # "Null"
    /\ (last.op \in Accessors \cup Constructors /\ last.alg = "Null")
          => last.res.tag = "Panic"
    /\ (last.op = "nonce_len" /\ last.alg \in Suites) => last.res = Ok(12)
    /\ (last.op = "pn_nonce_len" /\ last.alg \in Suites)
          => last.res = Ok(nonce_len(last.alg).val + 4)
    /\ (last.op \in {"Open::alg", "Seal::alg"}) => last.alg \in Suites

C9_Witness ==
    /\ last.op = "Open::new"
    /\ last.alg = "Null"
    /\ last.res.tag = "Panic"
    /\ open = NoObj
    /\ seal # NoObj

(* C6: with a non-Null suite and inputs of any length, an operation        *)
(* returns Ok or Err(CryptoFail) and never panics.                         *)
C6_NeverPanics ==
    last.alg \in Suites => last.res.tag \in {"Ok", "Err"}

-----------------------------------------------------------------------------
(* Claims on the counter-based nonce (SpecNonce).                          *)

Obj(side) == IF side = "seal" THEN seal ELSE open

(* C1: on one Seal (or one Open) whose base IV has 12 bytes, two           *)
(* counter-based calls with different 64-bit counters never hand the same  *)
(* nonce to seal (open).                                                   *)
C1_DistinctCountersDistinctNonces ==
    \A e1 \in log, e2 \in log :
       (/\ e1.side = e2.side
        /\ Len(Obj(e1.side).nonce) = 12
        /\ e1.counter # e2.counter) => e1.nonce # e2.nonce

C1_Witness ==
    \E e1 \in log, e2 \in log :
       /\ e1.side = "seal"
       /\ e2.side = "seal"
       /\ Len(seal.nonce) = 12
       /\ e1.counter = <<0, 1, 0, 0>>
       /\ e2.counter = <<0, 0, 0, 0>>

(* E: 4 zero bytes, then the counter as a big-endian 64-bit integer.       *)
CounterEncoding(c) ==
    <<0, 0, 0, 0,
      c[1] \div 256, c[1] % 256, c[2] \div 256, c[2] % 256,
      c[3] \div 256, c[3] % 256, c[4] \div 256, c[4] % 256>>

CounterOps == {"Seal::seal_with_u64_counter", "Open::open_with_u64_counter"}

OpObj == IF last.op = "Seal::seal_with_u64_counter" THEN seal ELSE open

(* C2: on an object whose base IV has 12 bytes, the counter-based call     *)
(* hands seal/open a 12-byte nonce with byte i = base_IV[i] XOR E[i], and  *)
(* the ad and the buffer unchanged; an Open and a Seal with the same IV    *)
(* compute the same nonce for the same counter.                            *)
C2_NonceIsIvXorCounter ==
    /\ (last.op \in CounterOps /\ Len(OpObj.nonce) = 12) =>
          /\ last.call.made
          /\ Len(last.call.nonce) = 12
          /\ \A i \in 1..12 :
                last.call.nonce[i] = Xor(OpObj.nonce[i], B(CounterEncoding(last.counter)[i]))
          /\ last.call.ad = last.ad
          /\ last.call.buf = bin
    /\ \A e1 \in log, e2 \in log :
          (/\ e1.side # e2.side
           /\ open.nonce = seal.nonce
           /\ e1.counter = e2.counter) => e1.nonce = e2.nonce

C2_Witness ==
    /\ last.op = "Open::open_with_u64_counter"
    /\ last.counter = <<32768, 0, 0, 0>>
    /\ last.call.made
    /\ last.call.nonce[5] # open.nonce[5]
    /\ open.nonce = seal.nonce
    /\ \E e \in log : e.side = "seal" /\ e.counter = last.counter

-----------------------------------------------------------------------------
(* Claims on sealing and opening (SpecAead).                               *)

PlainOf(b) == Take(b, Len(b) - TAG_LEN)

SealedWith12(l, obj) ==
    \/ l.op = "Seal::seal" /\ Len(l.nonce) = 12
    \/ l.op = "Seal::seal_with_u64_counter" /\ Len(obj.nonce) = 12

SameNonce ==
    \/ /\ last.op = "Seal::seal"
       /\ last'.op = "Open::open"
       /\ last'.nonce = last.nonce
    \/ /\ last.op = "Seal::seal_with_u64_counter"
       /\ last'.op = "Open::open_with_u64_counter"
       /\ last'.counter = last.counter
       /\ open.nonce = seal.nonce

(* C7: sealing a buffer of |P| + tag_len bytes under a 12-byte nonce (or a *)
(* counter and a 12-byte base IV) returns Ok(|P| + tag_len); opening the   *)
(* sealed buffer with an Open of the same key and IV, the same nonce (or   *)
(* counter) and the same ad returns Ok(|P|) and leaves P in front.         *)
C7_RoundTrip ==
    [][ /\ (SealedWith12(last', seal') /\ Len(bin') >= TAG_LEN) =>
              /\ last'.res = Ok(Len(PlainOf(bin')) + tag_len(seal.alg).val)
              /\ Len(buf') = Len(bin')
        /\ (/\ SealedWith12(last, seal)
            /\ Len(bin) >= TAG_LEN
            /\ SameNonce
            /\ bin' = buf
            /\ last'.ad = last.ad
            /\ open.key = seal.key) =>
              /\ last'.res = Ok(Len(PlainOf(bin)))
              /\ Take(buf', Len(PlainOf(bin))) = PlainOf(bin) ]_vars

C7_Witness ==
    /\ last.op = "Open::open_with_u64_counter"
    /\ last.alg = "ChaCha20_Poly1305"
    /\ last.counter = <<65535, 65535, 65535, 65535>>
    /\ last.res = Ok(3)
    /\ Take(buf, 3) = Plain
    /\ bin # buf

-----------------------------------------------------------------------------
(* Claims on header protection (SpecXor).                                  *)

XorOps == {"Seal::xor_keystream", "Open::xor_keystream"}

XorKey(op) == IF op = "Seal::xor_keystream" THEN seal.pn_key ELSE open.pn_key

(* C8: with a nonce of pn_nonce_len bytes each xor_keystream call returns  *)
(* Ok(|B|) and keeps the length; a second call with the same nonce, on the *)
(* Seal or on an Open with the same header-protection key, restores B.     *)
C8_XorKeystreamSelfInverse ==
    [][ /\ (last'.op \in XorOps /\ Len(last'.nonce) = pn_nonce_len(last'.alg).val) =>
              /\ last'.res = Ok(Len(bin'))
              /\ Len(buf') = Len(bin')
        /\ (/\ last.op \in XorOps
            /\ last'.op \in XorOps
            /\ Len(last.nonce) = pn_nonce_len(last.alg).val
            /\ last'.nonce = last.nonce
            /\ bin' = buf
            /\ XorKey(last'.op) = XorKey(last.op)) => buf' = bin ]_vars

C8_Witness ==
    /\ last.op = "Open::xor_keystream"
    /\ last.res = Ok(19)
    /\ bin # buf
    /\ buf = Plain \o Zeros(TAG_LEN)

-----------------------------------------------------------------------------
(* Claims on key derivation (SpecDerive).                                  *)

(* The info string of HKDF-Expand-Label for an output of n bytes: n as a   *)
(* 2-byte big-endian integer, the length of "tls13 " + label, "tls13 ",    *)
(* the label, and a zero byte.                                             *)
InfoOf(n, label) ==
    <<n \div 256, n % 256, 6 + Len(label), 116, 108, 115, 49, 51, 32>> \o label \o <<0>>

ExpandLabel(prk, label, n) == [i \in 1..n |-> Atom(<<"okm", prk, InfoOf(n, label), i>>)]

InitialSecret(cid) ==
    hkdf_extract(hmac_SigningKey_new(SHA256, Bytes(INITIAL_SALT)), cid)

DirectionSecret(cid, dir) ==
    ExpandLabel(InitialSecret(cid),
                IF dir = "client" THEN LABEL_client_in ELSE LABEL_server_in, 32)

Schedule(cid, dir) ==
    LET sk == hmac_SigningKey_new(SHA256, DirectionSecret(cid, dir))
    IN  [key    |-> ExpandLabel(sk, LABEL_quic_key, 16),
         nonce  |-> ExpandLabel(sk, LABEL_quic_iv, 12),
         pn_key |-> ExpandLabel(sk, LABEL_quic_hp, 16)]

MaterialOf(obj) == [key |-> obj.key, nonce |-> obj.nonce, pn_key |-> obj.pn_key]

(* The direction's material as the step functions give it, one call after  *)
(* the other on a caller's buffers.                                        *)
StepMaterial(cid, dir, g) ==
    LET prk == derive_initial_secret(cid)
        sec == IF dir = "client"
               THEN derive_client_initial_secret(prk, Zeros(32), g).out
               ELSE derive_server_initial_secret(prk, Zeros(32), g).out
    IN  [key    |-> derive_pkt_key("AES128_GCM", sec, Zeros(16), g).out,
         nonce  |-> derive_pkt_iv("AES128_GCM", sec, Zeros(12), g).out,
         pn_key |-> derive_hdr_key("AES128_GCM", sec, Zeros(16), g).out]

(* C3: a server gets an Open of the client direction's material and a Seal *)
(* of the server direction's, a client the reverse; so for one cid each    *)
(* endpoint's Seal material is the other's Open material; both objects     *)
(* report AES128_GCM.                                                      *)
C3_RolesGetTheRightDirection ==
    last.op = "derive_initial_key_material" =>
        /\ last.res.tag = "Ok"
        /\ MaterialOf(open) =
              StepMaterial(last.cid, IF last.is_server THEN "client" ELSE "server", last.g)
        /\ MaterialOf(seal) =
              StepMaterial(last.cid, IF last.is_server THEN "server" ELSE "client", last.g)
        /\ LET peer == derive_initial_key_material(last.cid, ~last.is_server, last.g)
           IN  /\ MaterialOf(seal) = MaterialOf(peer.open)
               /\ MaterialOf(open) = MaterialOf(peer.seal)
        /\ Open_alg(open) = "AES128_GCM"
        /\ Seal_alg(seal) = "AES128_GCM"

C3_Witness ==
    /\ last.op = "derive_initial_key_material"
    /\ last.is_server
    /\ last.cid = <<198, 84, 239, 216, 163, 27, 71, 146>>
    /\ open # NoObj
    /\ open.key # seal.key

(* C4: the two directions' material is the Initial key schedule (extract   *)
(* with INITIAL_SALT, "client in" / "server in" to 32 bytes, then "quic    *)
(* key", "quic iv", "quic hp" of that direction's own secret), whatever    *)
(* the uninitialized buffers held, and the same on every invocation.       *)
C4_InitialKeySchedule ==
    last.op = "derive_initial_key_material" =>
        /\ last.res.tag = "Ok"
        /\ MaterialOf(IF last.is_server THEN open ELSE seal) = Schedule(last.cid, "client")
        /\ MaterialOf(IF last.is_server THEN seal ELSE open) = Schedule(last.cid, "server")
        /\ Schedule(last.cid, "client").pn_key # Schedule(last.cid, "server").pn_key
        /\ \A g \in Garbage :
              LET again == derive_initial_key_material(last.cid, last.is_server, g)
              IN  again.open = open /\ again.seal = seal
        /\ \A dir \in {"client", "server"} :
              StepMaterial(last.cid, dir, last.g) = Schedule(last.cid, dir)

C4_Witness ==
    /\ last.op = "derive_initial_key_material"
    /\ ~last.is_server
    /\ last.g = 186
    /\ last.cid = <<131, 148, 200, 240, 62, 81, 87, 8>>
    /\ seal.nonce = Schedule(last.cid, "client").nonce

FixedDerivations == {"derive_pkt_key", "derive_pkt_iv", "derive_hdr_key"}

Need == IF last.op = "derive_pkt_iv" THEN nonce_len(last.alg).val ELSE key_len(last.alg).val

FixedLabel ==
    CASE last.op = "derive_pkt_key" -> LABEL_quic_key
      [] last.op = "derive_pkt_iv" -> LABEL_quic_iv
      [] OTHER -> LABEL_quic_hp

=============================================================================
